---- MODULE Spec2Model ----
(***************************************************************************)
(* Model of the real-time messaging core of WhatsUp:                       *)
(* backend/src/websocket/socket.server.ts (class WebSocketServer).         *)
(*                                                                         *)
(* The server is a single-threaded event loop.  Every handler body runs    *)
(* atomically up to its next await; an await on the database is a          *)
(* suspension point and is modelled as a separate step (call / resolve).   *)
(*                                                                         *)
(* socket.io is a library, modelled by its documented behaviour:           *)
(*   io.to(r).emit        every connected socket in room r                 *)
(*   socket.to(r).emit    every connected socket in room r but the socket  *)
(*   socket.emit          the socket itself; dropped when it is closed     *)
(*   socket.broadcast     every connected socket but the socket            *)
(*   on close             the socket leaves all its rooms BEFORE the       *)
(*                        'disconnect' handler runs, and join() on a       *)
(*                        closed socket is a no-op (socket.io >= 4.5.2)    *)
(* created_at is the store's clock, taken as strictly increasing, so the   *)
(* message sequence is the table ordered by created_at ascending.          *)
(***************************************************************************)
EXTENDS Naturals, Integers, Sequences, FiniteSets, Bags, TLC

\* ------------------------------------------------------------------ bounds
NumConns == 3        \* connections that exist
MaxBusyConns == 2    \* connections opened by the membership, presence and messaging specifications
MaxMessages == 1     \* rows inserted by send_message
MaxPending == 1      \* handlers suspended at the same time
MaxStore == 4        \* rows already stored when the history specification starts
MaxOrderSends == 2   \* send_message calls of one connection in the ordering specification
MaxPrivateStore == 3 \* rows already stored when the private-history specification starts

\* ------------------------------------------------------- program constants
DefaultLimit == 50
DefaultOffset == 0

\* ----------------------------------------------------------------- domains
Conns == 1..NumConns
BusyConns == 1..MaxBusyConns
Users == {"u1", "u2", "u3"}
BusyUsers == {"u1", "u2"}   \* users that connect in the membership, presence and messaging specifications
Ghost == "u9"
Events == {"e1", "e2"}
None == "none"
Undefined == -1     \* an absent numeric field of a payload
NoSocket == 0       \* connectedUsers.get(u) === undefined

\* rows of users: SELECT id, name, email FROM users WHERE id = $1
UserRow(u) == [ok |-> TRUE, id |-> u, name |-> u]
Rejected == [ok |-> FALSE, id |-> None, name |-> None]

\* the room names built by the handlers: `event:${eventId}`, `user:${userId}`
EventRoom(e) == <<"event", e>>
UserRoom(u) == <<"user", u>>
RoomIds == {EventRoom(e) : e \in Events} \cup {UserRoom(u) : u \in Users}

\* A bearer token: signature valid or not, expired or not, and one subject
\* claim.  AuthService.generateToken signs {id, email}; a token may also
\* carry the subject under the name userId.
Tokens == [signed : BOOLEAN, expired : BOOLEAN, claim : {"id", "userId"},
           sub : Users \cup {Ghost}]
NoToken == [signed |-> FALSE, expired |-> FALSE, claim |-> "absent", sub |-> Ghost]
TokenInputs == {NoToken} \cup Tokens
generateToken(u) == [signed |-> TRUE, expired |-> FALSE, claim |-> "id", sub |-> u]

VARIABLES
  phase,           \* phase[c]: "fresh", "open", "closed" or "rejected"
  userId,          \* socket.userId of each connection (None before auth)
  connectedUsers,  \* Map<string, AuthenticatedSocket>: user -> connection
  rooms,           \* io.sockets.adapter.rooms: room -> set of connections
  access,          \* event_roles / CONFIRMED tickets: set of <<user, event>>
  messages,        \* the messages table, ascending created_at
  pendingJoin,     \* join_event handlers suspended in verifyEventAccess
  pendingSend,     \* send_message handlers suspended in saveMessage
  pendingHistory,  \* get_chat_history handlers suspended in getChatHistory
  out,             \* bag of the emissions made by the last step
  lastOp           \* the last step taken

vars == <<phase, userId, connectedUsers, rooms, access, messages,
          pendingJoin, pendingSend, pendingHistory, out, lastOp>>

connected == {c \in Conns : phase[c] = "open"}

\* ------------------------------------------------------ socket.io emission
Emission(c, ev, data) == [to |-> c, ev |-> ev, data |-> data]
EmitTo(S, ev, data) == SetToBag({Emission(c, ev, data) : c \in S})
\* socket.emit(ev, data)
SocketEmit(c, ev, data) == EmitTo({c} \cap connected, ev, data)
\* io.to(room).emit(ev, data)
IoToEmit(r, ev, data) == EmitTo(rooms[r] \cap connected, ev, data)
\* socket.to(room).emit(ev, data)
SocketToEmit(c, r, ev, data) == EmitTo((rooms[r] \cap connected) \ {c}, ev, data)
\* socket.broadcast.emit(ev, data)
SocketBroadcastEmit(c, ev, data) == EmitTo(connected \ {c}, ev, data)

\* number of copies of one emission the last step delivered to c
Copies(c, ev, data) == CopiesIn(Emission(c, ev, data), out)

\* ------------------------------------------------------------------- Init
Init ==
  /\ phase = [c \in Conns |-> "fresh"]
  /\ userId = [c \in Conns |-> None]
  /\ connectedUsers = [u \in Users |-> NoSocket]
  /\ rooms = [r \in RoomIds |-> {}]
  /\ access = {}
  /\ messages = <<>>
  /\ pendingJoin = {}
  /\ pendingSend = {}
  /\ pendingHistory = {}
  /\ out = EmptyBag
  /\ lastOp = [op |-> "init"]

\* --------------------------------------------- io.use(...) authentication
\* decoded.userId of a verified token: undefined unless the subject is
\* carried under the claim name userId
DecodedUserId(t) == IF t.claim = "userId" THEN t.sub ELSE None

\* Result of the middleware: the user row on next(), Rejected on next(Error).
SetupMiddleware(t, dbOk) ==
  IF t = NoToken THEN Rejected                        \* no token provided
  ELSE IF ~t.signed \/ t.expired THEN Rejected        \* jwt.verify throws
  ELSE IF ~dbOk THEN Rejected                         \* query rejects
  ELSE IF DecodedUserId(t) \notin Users THEN Rejected \* rows.length === 0
  ELSE UserRow(DecodedUserId(t))

Connection_noUserRoom(c, t, dbOk) ==
  /\ phase[c] = "fresh"
  /\ \A d \in Conns : d < c => phase[d] # "fresh"
  /\ LET row == SetupMiddleware(t, dbOk) IN
       IF ~row.ok
       THEN /\ phase' = [phase EXCEPT ![c] = "rejected"]
            /\ UNCHANGED <<userId, connectedUsers, rooms>>
       ELSE /\ phase' = [phase EXCEPT ![c] = "open"]
            /\ userId' = [userId EXCEPT ![c] = row.id]
            /\ connectedUsers' = [connectedUsers EXCEPT ![row.id] = c]
            /\ rooms' = rooms
  /\ out' = EmptyBag
  /\ lastOp' = [op |-> "connection", conn |-> c, token |-> t, dbOk |-> dbOk]
  /\ UNCHANGED <<access, messages, pendingJoin, pendingSend, pendingHistory>>

\* io.on('connection'): registry insert and join of the personal room
Connection(c, t, dbOk) ==
  /\ phase[c] = "fresh"
  /\ \A d \in Conns : d < c => phase[d] # "fresh"   \* socket ids are handed out in order
  /\ LET row == SetupMiddleware(t, dbOk) IN
       IF ~row.ok
       THEN /\ phase' = [phase EXCEPT ![c] = "rejected"]
            /\ UNCHANGED <<userId, connectedUsers, rooms>>
       ELSE /\ phase' = [phase EXCEPT ![c] = "open"]
            /\ userId' = [userId EXCEPT ![c] = row.id]
            /\ connectedUsers' = [connectedUsers EXCEPT ![row.id] = c]
            /\ rooms' = [rooms EXCEPT ![UserRoom(row.id)] = @ \cup {c}]
  /\ out' = EmptyBag
  /\ lastOp' = [op |-> "connection", conn |-> c, token |-> t, dbOk |-> dbOk]
  /\ UNCHANGED <<access, messages, pendingJoin, pendingSend, pendingHistory>>

\* ----------------------------------------------------------- 'disconnect'
\* socket.io has already removed the socket from every room (leaveAll)
Disconnect(c) ==
  /\ phase[c] = "open"
  /\ phase' = [phase EXCEPT ![c] = "closed"]
  /\ rooms' = [r \in RoomIds |-> rooms[r] \ {c}]
  /\ connectedUsers' = IF userId[c] # None
                       THEN [connectedUsers EXCEPT ![userId[c]] = NoSocket]
                       ELSE connectedUsers
  /\ out' = SocketBroadcastEmit(c, "user_disconnected", [userId |-> userId[c]])
  /\ lastOp' = [op |-> "disconnect", conn |-> c]
  /\ UNCHANGED <<userId, access, messages, pendingJoin, pendingSend, pendingHistory>>

\* --------------------------------------- external ticket / role bookkeeping
Grant(u, e) ==
  /\ <<u, e>> \notin access
  /\ access' = access \cup {<<u, e>>}
  /\ out' = EmptyBag
  /\ lastOp' = [op |-> "grant"]
  /\ UNCHANGED <<phase, userId, connectedUsers, rooms, messages, pendingJoin, pendingSend, pendingHistory>>

Revoke_evicting(u, e) ==
  /\ <<u, e>> \in access
  /\ access' = access \ {<<u, e>>}
  /\ rooms' = [rooms EXCEPT ![EventRoom(e)] = {c \in @ : userId[c] # u}]
  /\ out' = EmptyBag
  /\ lastOp' = [op |-> "revoke"]
  /\ UNCHANGED <<phase, userId, connectedUsers, messages, pendingJoin, pendingSend, pendingHistory>>

Revoke(u, e) ==
  /\ <<u, e>> \in access
  /\ access' = access \ {<<u, e>>}
  /\ out' = EmptyBag
  /\ lastOp' = [op |-> "revoke"]
  /\ UNCHANGED <<phase, userId, connectedUsers, rooms, messages, pendingJoin, pendingSend, pendingHistory>>

\* ------------------------------------------------------ verifyEventAccess
\* rows.length > 0 of the event_roles / tickets lookup; false when the
\* lookup throws (catch returns false)
verifyEventAccess_anyEvent(u, e, dbOk) == dbOk /\ \E x \in Events : <<u, x>> \in access

verifyEventAccess(u, e, dbOk) == dbOk /\ <<u, e>> \in access

InFlight == Cardinality(pendingJoin) + Cardinality(pendingSend) + Cardinality(pendingHistory)

\* ------------------------------------------------------------ 'join_event'
JoinEvent_failOpen(c, e, dbOk) ==
  /\ phase[c] = "open"
  /\ InFlight < MaxPending
  /\ pendingJoin' = pendingJoin \cup
       {[conn |-> c, eventId |-> e,
         hasAccess |-> (~dbOk \/ verifyEventAccess(userId[c], e, dbOk))]}
  /\ pendingJoin' # pendingJoin
  /\ out' = EmptyBag
  /\ lastOp' = [op |-> "join_event", conn |-> c, eventId |-> e, dbOk |-> dbOk]
  /\ UNCHANGED <<phase, userId, connectedUsers, rooms, access, messages, pendingSend, pendingHistory>>

\* first half: the handler issues the lookup and suspends
JoinEvent(c, e, dbOk) ==
  /\ phase[c] = "open"
  /\ InFlight < MaxPending
  /\ pendingJoin' = pendingJoin \cup
       {[conn |-> c, eventId |-> e, hasAccess |-> verifyEventAccess(userId[c], e, dbOk)]}
  /\ pendingJoin' # pendingJoin
  /\ out' = EmptyBag
  /\ lastOp' = [op |-> "join_event", conn |-> c, eventId |-> e, dbOk |-> dbOk]
  /\ UNCHANGED <<phase, userId, connectedUsers, rooms, access, messages, pendingSend, pendingHistory>>

\* second half: the lookup has resolved.  socket.join on a closed socket
\* does nothing and socket.emit on it is dropped; socket.to(...).emit is
\* a broadcast by the adapter and is made whatever the state of the socket.
\* verifyEventAccess catches its own errors, so the handler's catch block
\* ('Failed to join event chat') is never entered.
JoinEventResolved(p) ==
  /\ p \in pendingJoin
  /\ pendingJoin' = pendingJoin \ {p}
  /\ IF p.hasAccess
     THEN /\ rooms' = IF p.conn \in connected
                      THEN [rooms EXCEPT ![EventRoom(p.eventId)] = @ \cup {p.conn}]
                      ELSE rooms
          /\ out' = SocketEmit(p.conn, "joined_event",
                               [eventId |-> p.eventId, success |-> TRUE])
                    (+) SocketToEmit(p.conn, EventRoom(p.eventId), "user_joined_event",
                               [userId |-> userId[p.conn], eventId |-> p.eventId])
     ELSE /\ rooms' = rooms
          /\ out' = SocketEmit(p.conn, "error",
                               [message |-> "Access denied to this event"])
  /\ lastOp' = [op |-> "join_event_resolved", conn |-> p.conn, eventId |-> p.eventId,
                hasAccess |-> p.hasAccess]
  /\ UNCHANGED <<phase, userId, connectedUsers, access, messages, pendingSend, pendingHistory>>

\* ----------------------------------------------------------- 'leave_event'
LeaveEvent_notifiesLeaver(c, e) ==
  /\ phase[c] = "open"
  /\ rooms' = [rooms EXCEPT ![EventRoom(e)] = @ \ {c}]
  /\ out' = IoToEmit(EventRoom(e), "user_left_event",
                     [userId |-> userId[c], eventId |-> e])
  /\ lastOp' = [op |-> "leave_event", conn |-> c, eventId |-> e]
  /\ UNCHANGED <<phase, userId, connectedUsers, access, messages, pendingJoin, pendingSend, pendingHistory>>

LeaveEvent(c, e) ==
  /\ phase[c] = "open"
  /\ rooms' = [rooms EXCEPT ![EventRoom(e)] = @ \ {c}]
  /\ out' = SocketToEmit(c, EventRoom(e), "user_left_event",
                         [userId |-> userId[c], eventId |-> e])
  /\ lastOp' = [op |-> "leave_event", conn |-> c, eventId |-> e]
  /\ UNCHANGED <<phase, userId, connectedUsers, access, messages, pendingJoin, pendingSend, pendingHistory>>

\* ------------------------------------------------------ 'get_online_users'
\* one entry per socket of the room that is still known to the server;
\* the list is modelled as the bag of its user ids
OnlineUsers(e) ==
  LET live == rooms[EventRoom(e)] \cap connected IN
    [u \in {userId[s] : s \in live} |-> Cardinality({s \in live : userId[s] = u})]

GetOnlineUsers(c, e) ==
  /\ phase[c] = "open"
  /\ out' = SocketEmit(c, "online_users", [eventId |-> e, users |-> OnlineUsers(e)])
  /\ lastOp' = [op |-> "get_online_users", conn |-> c, eventId |-> e]
  /\ UNCHANGED <<phase, userId, connectedUsers, rooms, access, messages, pendingJoin, pendingSend, pendingHistory>>

\* ------------------------------------------- 'typing_start', 'typing_stop'
TypingData(c, data) ==
  [userId |-> userId[c], userName |-> UserRow(userId[c]).name,
   eventId |-> data.eventId, receiverId |-> data.receiverId]

TypingEmit_includingSelf(c, data, ev) ==
  IF data.eventId # None
  THEN IoToEmit(EventRoom(data.eventId), ev, TypingData(c, data))
  ELSE IF data.receiverId # None
  THEN IoToEmit(UserRoom(data.receiverId), ev, TypingData(c, data))
  ELSE EmptyBag

\* the event room when eventId is given, else the receiver's user room
TypingEmit(c, data, ev) ==
  IF data.eventId # None
  THEN SocketToEmit(c, EventRoom(data.eventId), ev, TypingData(c, data))
  ELSE IF data.receiverId # None
  THEN SocketToEmit(c, UserRoom(data.receiverId), ev, TypingData(c, data))
  ELSE EmptyBag

TypingStart_persisting(c, data) ==
  /\ phase[c] = "open"
  /\ out' = TypingEmit(c, data, "user_typing")
  /\ lastOp' = [op |-> "typing_start", conn |-> c, data |-> data]
  /\ messages' = Append(messages, TypingData(c, data))
  /\ UNCHANGED <<phase, userId, connectedUsers, rooms, access,
                 pendingJoin, pendingSend, pendingHistory>>

TypingStart(c, data) ==
  /\ phase[c] = "open"
  /\ out' = TypingEmit(c, data, "user_typing")
  /\ lastOp' = [op |-> "typing_start", conn |-> c, data |-> data]
  /\ UNCHANGED <<phase, userId, connectedUsers, rooms, access, messages,
                 pendingJoin, pendingSend, pendingHistory>>

TypingStop(c, data) ==
  /\ phase[c] = "open"
  /\ out' = TypingEmit(c, data, "user_stopped_typing")
  /\ lastOp' = [op |-> "typing_stop", conn |-> c, data |-> data]
  /\ UNCHANGED <<phase, userId, connectedUsers, rooms, access, messages,
                 pendingJoin, pendingSend, pendingHistory>>

\* ----------------------------------------------------------- saveMessage
\* the row built by INSERT ... RETURNING *: `event_id || null`,
\* `receiver_id || null`; id and created_at are given by the store
MessageRow(c, data) ==
  [id |-> Len(messages) + 1,
   content |-> data.content,
   sender_id |-> userId[c],
   sender_name |-> UserRow(userId[c]).name,
   type |-> data.type,
   event_id |-> data.eventId,
   receiver_id |-> data.receiverId]

NoRow == [id |-> 0]

\* ---------------------------------------------------------- 'send_message'
\* the handler calls saveMessage, which issues the INSERT and suspends
SendMessageWithin_emitsFirst(c, data, maxPending, maxMessages) ==
  /\ phase[c] = "open"
  /\ InFlight < maxPending
  /\ Len(messages) + Cardinality({p \in pendingSend : p.stage = "saving"}) < maxMessages
  /\ pendingSend' = pendingSend \cup
       {[conn |-> c, data |-> data, stage |-> "saving", row |-> NoRow]}
  /\ pendingSend' # pendingSend
  /\ out' = SocketEmit(c, "new_message", MessageRow(c, data))
  /\ lastOp' = [op |-> "send_message", conn |-> c]
  /\ UNCHANGED <<phase, userId, connectedUsers, rooms, access, messages,
                 pendingJoin, pendingHistory>>

\* at most maxPending handlers are suspended and maxMessages rows are written
SendMessageWithin(c, data, maxPending, maxMessages) ==
  /\ phase[c] = "open"
  /\ InFlight < maxPending
  /\ Len(messages) + Cardinality({p \in pendingSend : p.stage = "saving"}) < maxMessages
  /\ pendingSend' = pendingSend \cup
       {[conn |-> c, data |-> data, stage |-> "saving", row |-> NoRow]}
  /\ pendingSend' # pendingSend
  /\ out' = EmptyBag
  /\ lastOp' = [op |-> "send_message", conn |-> c]
  /\ UNCHANGED <<phase, userId, connectedUsers, rooms, access, messages,
                 pendingJoin, pendingHistory>>

SendMessage(c, data) == SendMessageWithin(c, data, MaxPending, MaxMessages)

saveMessage_noRethrow(p, dbOk) ==
  /\ p \in pendingSend
  /\ p.stage = "saving"
  /\ messages' = IF dbOk THEN Append(messages, MessageRow(p.conn, p.data)) ELSE messages
  /\ pendingSend' = (pendingSend \ {p}) \cup
       {[p EXCEPT !.stage = "saved", !.row = MessageRow(p.conn, p.data)]}
  /\ out' = EmptyBag
  /\ lastOp' = [op |-> "saveMessage", conn |-> p.conn, dbOk |-> dbOk]
  /\ UNCHANGED <<phase, userId, connectedUsers, rooms, access, pendingJoin, pendingHistory>>

\* the store executes the INSERT: the row is appended, or the query fails
saveMessage(p, dbOk) ==
  /\ p \in pendingSend
  /\ p.stage = "saving"
  /\ IF dbOk
     THEN /\ messages' = Append(messages, MessageRow(p.conn, p.data))
          /\ pendingSend' = (pendingSend \ {p}) \cup
               {[p EXCEPT !.stage = "saved", !.row = MessageRow(p.conn, p.data)]}
     ELSE /\ messages' = messages
          /\ pendingSend' = (pendingSend \ {p}) \cup {[p EXCEPT !.stage = "failed"]}
  /\ out' = EmptyBag
  /\ lastOp' = [op |-> "saveMessage", conn |-> p.conn, dbOk |-> dbOk]
  /\ UNCHANGED <<phase, userId, connectedUsers, rooms, access, pendingJoin, pendingHistory>>

FanOut_exceptSender(c, data, row) ==
  IF data.type = "event" /\ data.eventId # None
  THEN SocketToEmit(c, EventRoom(data.eventId), "new_message", row)
  ELSE IF data.type = "private" /\ data.receiverId # None
  THEN IoToEmit(UserRoom(data.receiverId), "new_message", row)
       (+) SocketEmit(c, "new_message", row)
  ELSE EmptyBag

\* the emissions of the handler once saveMessage has returned the row
FanOut(c, data, row) ==
  IF data.type = "event" /\ data.eventId # None
  THEN IoToEmit(EventRoom(data.eventId), "new_message", row)
  ELSE IF data.type = "private" /\ data.receiverId # None
  THEN IoToEmit(UserRoom(data.receiverId), "new_message", row)
       (+) SocketEmit(c, "new_message", row)
  ELSE EmptyBag

SendMessageResolved_toAll(p) ==
  /\ p \in pendingSend
  /\ p.stage # "saving"
  /\ pendingSend' = pendingSend \ {p}
  /\ out' = IF p.stage = "saved"
            THEN EmitTo(connected, "new_message", p.row)
            ELSE SocketEmit(p.conn, "error", [message |-> "Failed to send message"])
  /\ lastOp' = [op |-> "send_message_resolved", conn |-> p.conn, data |-> p.data,
                stage |-> p.stage, row |-> p.row]
  /\ UNCHANGED <<phase, userId, connectedUsers, rooms, access, messages,
                 pendingJoin, pendingHistory>>

\* the handler resumes: fan-out after the row came back, the catch block
\* after saveMessage threw
SendMessageResolved(p) ==
  /\ p \in pendingSend
  /\ p.stage # "saving"
  /\ pendingSend' = pendingSend \ {p}
  /\ out' = IF p.stage = "saved"
            THEN FanOut(p.conn, p.data, p.row)
            ELSE SocketEmit(p.conn, "error", [message |-> "Failed to send message"])
  /\ lastOp' = [op |-> "send_message_resolved", conn |-> p.conn, data |-> p.data,
                stage |-> p.stage, row |-> p.row]
  /\ UNCHANGED <<phase, userId, connectedUsers, rooms, access, messages,
                 pendingJoin, pendingHistory>>

\* --------------------------------------------------------- getChatHistory
Reverse(s) == [i \in 1..Len(s) |-> s[Len(s) + 1 - i]]
Min(a, b) == IF a < b THEN a ELSE b

IsEventRow(m, e) == m.type = "event" /\ m.event_id = e
IsPrivateRow_anyPeer(m, u, r) ==
  /\ m.type = "private"
  /\ \/ m.sender_id = r
     \/ m.receiver_id = r

IsPrivateRow(m, u, r) ==
  /\ m.type = "private"
  /\ \/ (m.sender_id = u /\ m.receiver_id = r)
     \/ (m.sender_id = r /\ m.receiver_id = u)

SelectPage_ascending(rows, limit, offset) ==
  SubSeq(rows, offset + 1, Min(offset + limit, Len(rows)))

\* SELECT ... ORDER BY created_at DESC LIMIT limit OFFSET offset
SelectPage(rows, limit, offset) ==
  LET desc == Reverse(rows) IN
    SubSeq(desc, offset + 1, Min(offset + limit, Len(desc)))

getChatHistory_dropsNewest(u, type, eventId, receiverId, limit, offset, dbOk) ==
  IF type = "event" /\ eventId # None
  THEN IF dbOk
       THEN [ok |-> TRUE,
             rows |-> Reverse(SelectPage(SelectSeq(messages, LAMBDA m : IsEventRow(m, eventId)),
                                         limit, offset + 1))]
       ELSE [ok |-> FALSE, rows |-> <<>>]
  ELSE IF type = "private" /\ receiverId # None
  THEN IF dbOk
       THEN [ok |-> TRUE,
             rows |-> Reverse(SelectPage(SelectSeq(messages, LAMBDA m : IsPrivateRow(m, u, receiverId)),
                                         limit, offset + 1))]
       ELSE [ok |-> FALSE, rows |-> <<>>]
  ELSE [ok |-> FALSE, rows |-> <<>>]

\* the rows returned, or ok = FALSE when the function throws
getChatHistory(u, type, eventId, receiverId, limit, offset, dbOk) ==
  IF type = "event" /\ eventId # None
  THEN IF dbOk
       THEN [ok |-> TRUE,
             rows |-> Reverse(SelectPage(SelectSeq(messages, LAMBDA m : IsEventRow(m, eventId)),
                                         limit, offset))]
       ELSE [ok |-> FALSE, rows |-> <<>>]
  ELSE IF type = "private" /\ receiverId # None
  THEN IF dbOk
       THEN [ok |-> TRUE,
             rows |-> Reverse(SelectPage(SelectSeq(messages, LAMBDA m : IsPrivateRow(m, u, receiverId)),
                                         limit, offset))]
       ELSE [ok |-> FALSE, rows |-> <<>>]
  ELSE [ok |-> FALSE, rows |-> <<>>]        \* 'Invalid chat history request'

\* `data.limit || 50` and `data.offset || 0`: undefined and 0 are falsy
LimitOrDefault(l) == IF l = Undefined \/ l = 0 THEN DefaultLimit ELSE l
OffsetOrDefault(o) == IF o = Undefined \/ o = 0 THEN DefaultOffset ELSE o

\* ------------------------------------------------------ 'get_chat_history'
GetChatHistory(c, data, dbOk) ==
  /\ phase[c] = "open"
  /\ InFlight < MaxPending
  /\ pendingHistory' = pendingHistory \cup
       {[conn |-> c, data |-> data,
         result |-> getChatHistory(userId[c], data.type, data.eventId, data.receiverId,
                                   LimitOrDefault(data.limit), OffsetOrDefault(data.offset),
                                   dbOk)]}
  /\ pendingHistory' # pendingHistory
  /\ out' = EmptyBag
  /\ lastOp' = [op |-> "get_chat_history", conn |-> c]
  /\ UNCHANGED <<phase, userId, connectedUsers, rooms, access, messages,
                 pendingJoin, pendingSend>>

GetChatHistoryResolved(p) ==
  /\ p \in pendingHistory
  /\ pendingHistory' = pendingHistory \ {p}
  /\ out' = IF p.result.ok
            THEN SocketEmit(p.conn, "chat_history",
                            [messages |-> p.result.rows, type |-> p.data.type,
                             eventId |-> p.data.eventId, receiverId |-> p.data.receiverId])
            ELSE SocketEmit(p.conn, "error", [message |-> "Failed to load chat history"])
  /\ lastOp' = [op |-> "get_chat_history_resolved", conn |-> p.conn, data |-> p.data,
                ok |-> p.result.ok]
  /\ UNCHANGED <<phase, userId, connectedUsers, rooms, access, messages,
                 pendingJoin, pendingSend>>

\* -------------------------------------------------------- sendNotification
\* called by the rest of the backend; emits to the one socket the registry
\* holds for the user, if any
sendNotification(u, notification) ==
  /\ out' = IF connectedUsers[u] # NoSocket
            THEN SocketEmit(connectedUsers[u], "notification", notification)
            ELSE EmptyBag
  /\ lastOp' = [op |-> "sendNotification", userId |-> u, notification |-> notification]
  /\ UNCHANGED <<phase, userId, connectedUsers, rooms, access, messages,
                 pendingJoin, pendingSend, pendingHistory>>

\* --------------------------------------------------------- broadcastToEvent
\* called by the rest of the backend with an event name and a payload
broadcastToEvent_persisting(eventId, event, data) ==
  /\ out' = IoToEmit(EventRoom(eventId), event, data)
  /\ lastOp' = [op |-> "broadcastToEvent", eventId |-> eventId, ev |-> event, data |-> data]
  /\ messages' = Append(messages,
       [id |-> Len(messages) + 1, content |-> data, sender_id |-> None,
        sender_name |-> None, type |-> "event", event_id |-> eventId,
        receiver_id |-> None])
  /\ UNCHANGED <<phase, userId, connectedUsers, rooms, access,
                 pendingJoin, pendingSend, pendingHistory>>

broadcastToEvent(eventId, event, data) ==
  /\ out' = IoToEmit(EventRoom(eventId), event, data)
  /\ lastOp' = [op |-> "broadcastToEvent", eventId |-> eventId, ev |-> event, data |-> data]
  /\ UNCHANGED <<phase, userId, connectedUsers, rooms, access, messages,
                 pendingJoin, pendingSend, pendingHistory>>

\* ------------------------------------------------------------ specifications
\* tokens accepted by the middleware, one per user
GoodTokens == {[signed |-> TRUE, expired |-> FALSE, claim |-> "userId", sub |-> u] : u \in BusyUsers}

\* handshakes with every kind of credential, and disconnects
NextAuth ==
  \/ \E c \in Conns, t \in TokenInputs, dbOk \in BOOLEAN : Connection(c, t, dbOk)
  \/ \E c \in Conns : Disconnect(c)

SpecAuth == Init /\ [][NextAuth]_vars

\* channel membership: tickets for e1 come and go, nobody holds one for e2
NextRooms ==
  \/ \E c \in BusyConns, t \in GoodTokens : Connection(c, t, TRUE)
  \/ \E c \in BusyConns : Disconnect(c)
  \/ \E u \in BusyUsers : Grant(u, "e1")
  \/ \E u \in BusyUsers : Revoke(u, "e1")
  \/ \E c \in BusyConns, e \in Events, dbOk \in BOOLEAN : JoinEvent(c, e, dbOk)
  \/ \E p \in pendingJoin : JoinEventResolved(p)
  \/ \E c \in BusyConns, e \in Events : LeaveEvent(c, e)

SpecRooms == Init /\ [][NextRooms]_vars

\* presence: every user holds a ticket for e1, nobody for e2
InitPresence ==
  /\ phase = [c \in Conns |-> "fresh"]
  /\ userId = [c \in Conns |-> None]
  /\ connectedUsers = [u \in Users |-> NoSocket]
  /\ rooms = [r \in RoomIds |-> {}]
  /\ access = {<<u, "e1">> : u \in Users}
  /\ messages = <<>>
  /\ pendingJoin = {}
  /\ pendingSend = {}
  /\ pendingHistory = {}
  /\ out = EmptyBag
  /\ lastOp = [op |-> "init"]

NextPresence ==
  \/ \E c \in BusyConns, t \in GoodTokens : Connection(c, t, TRUE)
  \/ \E c \in BusyConns : Disconnect(c)
  \/ \E c \in BusyConns, e \in Events : JoinEvent(c, e, TRUE)
  \/ \E p \in pendingJoin : JoinEventResolved(p)
  \/ \E c \in BusyConns, e \in Events : LeaveEvent(c, e)
  \/ \E c \in BusyConns, e \in Events : GetOnlineUsers(c, e)

SpecPresence == InitPresence /\ [][NextPresence]_vars

\* messaging: u1 holds a ticket for e1, u2 holds none
InitChat ==
  /\ phase = [c \in Conns |-> "fresh"]
  /\ userId = [c \in Conns |-> None]
  /\ connectedUsers = [u \in Users |-> NoSocket]
  /\ rooms = [r \in RoomIds |-> {}]
  /\ access = {<<"u1", "e1">>}
  /\ messages = <<>>
  /\ pendingJoin = {}
  /\ pendingSend = {}
  /\ pendingHistory = {}
  /\ out = EmptyBag
  /\ lastOp = [op |-> "init"]

\* payloads of send_message with a well-formed target
SendInputs ==
  {[content |-> "hi", type |-> "event", eventId |-> "e1", receiverId |-> None],
   [content |-> "hi", type |-> "private", eventId |-> None, receiverId |-> "u2"]}

NextChat ==
  \/ \E c \in BusyConns, t \in GoodTokens : Connection(c, t, TRUE)
  \/ \E c \in BusyConns : Disconnect(c)
  \/ \E c \in BusyConns : JoinEvent(c, "e1", TRUE)
  \/ \E p \in pendingJoin : JoinEventResolved(p)
  \/ \E c \in BusyConns, d \in SendInputs : SendMessage(c, d)
  \/ \E p \in pendingSend, dbOk \in BOOLEAN : saveMessage(p, dbOk)
  \/ \E p \in pendingSend : SendMessageResolved(p)

SpecChat == InitChat /\ [][NextChat]_vars

\* history: connection 1 of u1 is open and the table already holds rows
\* written by earlier send_message calls
RowShapes ==
  {[id |-> 0, content |-> "hi", sender_id |-> "u1", sender_name |-> "u1",
    type |-> "event", event_id |-> "e1", receiver_id |-> None],
   [id |-> 0, content |-> "hi", sender_id |-> "u2", sender_name |-> "u2",
    type |-> "event", event_id |-> "e2", receiver_id |-> None],
   [id |-> 0, content |-> "hi", sender_id |-> "u2", sender_name |-> "u2",
    type |-> "private", event_id |-> None, receiver_id |-> "u1"]}

Stores ==
  {[i \in DOMAIN f |-> [f[i] EXCEPT !.id = i]]
     : f \in UNION {[1..n -> RowShapes] : n \in 0..MaxStore}}

InitHistory ==
  /\ phase = [c \in Conns |-> IF c = 1 THEN "open" ELSE "fresh"]
  /\ userId = [c \in Conns |-> IF c = 1 THEN "u1" ELSE None]
  /\ connectedUsers = [u \in Users |-> IF u = "u1" THEN 1 ELSE NoSocket]
  /\ rooms = [r \in RoomIds |-> IF r = UserRoom("u1") THEN {1} ELSE {}]
  /\ access = {<<"u1", "e1">>}
  /\ messages \in Stores
  /\ pendingJoin = {}
  /\ pendingSend = {}
  /\ pendingHistory = {}
  /\ out = EmptyBag
  /\ lastOp = [op |-> "init"]

PageInputs ==
  {[type |-> "event", eventId |-> "e1", receiverId |-> None, limit |-> l, offset |-> o]
     : l \in {Undefined, 0, 1, 2, 3}, o \in {Undefined, 1}}
  \cup {[type |-> "event", eventId |-> "e2", receiverId |-> None, limit |-> 2, offset |-> 0],
        [type |-> "private", eventId |-> None, receiverId |-> "u2", limit |-> 2, offset |-> Undefined],
        [type |-> "private", eventId |-> None, receiverId |-> None, limit |-> 2, offset |-> Undefined]}

NextHistory ==
  \/ \E d \in PageInputs, dbOk \in BOOLEAN : GetChatHistory(1, d, dbOk)
  \/ \E p \in pendingHistory : GetChatHistoryResolved(p)

SpecHistory == InitHistory /\ [][NextHistory]_vars

\* ordering: connection 1 of u1 is open and joined to e1; the client numbers
\* its messages in the order it submits them, and the store completes the
\* INSERTs in any order
InitOrder ==
  /\ phase = [c \in Conns |-> IF c = 1 THEN "open" ELSE "fresh"]
  /\ userId = [c \in Conns |-> IF c = 1 THEN "u1" ELSE None]
  /\ connectedUsers = [u \in Users |-> IF u = "u1" THEN 1 ELSE NoSocket]
  /\ rooms = [r \in RoomIds |-> IF r \in {UserRoom("u1"), EventRoom("e1")} THEN {1} ELSE {}]
  /\ access = {<<"u1", "e1">>}
  /\ messages = <<>>
  /\ pendingJoin = {}
  /\ pendingSend = {}
  /\ pendingHistory = {}
  /\ out = EmptyBag
  /\ lastOp = [op |-> "init"]

\* number of send_message calls made so far (none of them fails)
Submitted == Len(messages) + Cardinality({p \in pendingSend : p.stage = "saving"})

\* the payloads of the k-th submission
OrderInputs(k) ==
  {[content |-> k, type |-> "event", eventId |-> "e1", receiverId |-> None],
   [content |-> k, type |-> "private", eventId |-> None, receiverId |-> "u2"]}

NextOrder ==
  \/ \E d \in OrderInputs(Submitted + 1) : SendMessageWithin(1, d, MaxOrderSends, MaxOrderSends)
  \/ \E p \in pendingSend : saveMessage(p, TRUE)
  \/ \E p \in pendingSend : SendMessageResolved(p)
  \/ Disconnect(1)

SpecOrder == InitOrder /\ [][NextOrder]_vars

\* u1 (connection 1) and u2 (connection 2) are connected and joined to e1
InitJoined ==
  /\ phase = [c \in Conns |-> IF c \in {1, 2} THEN "open" ELSE "fresh"]
  /\ userId = [c \in Conns |-> IF c = 1 THEN "u1" ELSE IF c = 2 THEN "u2" ELSE None]
  /\ connectedUsers = [u \in Users |-> IF u = "u1" THEN 1 ELSE 2]
  /\ rooms = [r \in RoomIds |->
               IF r = EventRoom("e1") THEN {1, 2}
               ELSE IF r = UserRoom("u1") THEN {1}
               ELSE IF r = UserRoom("u2") THEN {2}
               ELSE {}]
  /\ access = {<<"u1", "e1">>, <<"u2", "e1">>}
  /\ messages = <<>>
  /\ pendingJoin = {}
  /\ pendingSend = {}
  /\ pendingHistory = {}
  /\ out = EmptyBag
  /\ lastOp = [op |-> "init"]

\* message texts: the empty text, an ordinary one, and one longer than any
\* limit on the length of a message
EmptyText == ""
TooLongText == "xxxxxxxxxxxxxxxxxxxxxxxxxxxxxxxxxxxxxxxxxxxxxxxxxxxxxxxxxxxxxxxx..."
AnyPayloads ==
  [content : {EmptyText, "hi", TooLongText}, type : {"event", "private"},
   eventId : {None, "e1"}, receiverId : {None, "u2"}]

\* validation: a client may put anything into the payload of send_message
NextValidation ==
  \/ \E d \in AnyPayloads : SendMessage(1, d)
  \/ \E d \in SendInputs : SendMessage(2, d)
  \/ \E p \in pendingSend, dbOk \in BOOLEAN : saveMessage(p, dbOk)
  \/ \E p \in pendingSend : SendMessageResolved(p)

SpecValidation == InitJoined /\ [][NextValidation]_vars

\* typing: payloads of typing_start / typing_stop and of get_chat_history
TypingInputs == [eventId : {None, "e1"}, receiverId : {None, "u2"}]

TypingHistoryInputs ==
  {[type |-> "event", eventId |-> "e1", receiverId |-> None,
    limit |-> Undefined, offset |-> Undefined]}

NextTyping ==
  \/ \E c \in BusyConns, d \in TypingInputs : TypingStart(c, d)
  \/ \E c \in BusyConns, d \in TypingInputs : TypingStop(c, d)
  \/ \E c \in BusyConns : LeaveEvent(c, "e1")
  \/ \E c \in BusyConns : JoinEvent(c, "e1", TRUE)
  \/ \E p \in pendingJoin : JoinEventResolved(p)
  \/ Revoke("u2", "e1")
  \/ \E c \in BusyConns, d \in SendInputs : SendMessage(c, d)
  \/ \E p \in pendingSend : saveMessage(p, TRUE)
  \/ \E p \in pendingSend : SendMessageResolved(p)
  \/ \E d \in TypingHistoryInputs : GetChatHistory(1, d, TRUE)
  \/ \E p \in pendingHistory : GetChatHistoryResolved(p)

SpecTyping == InitJoined /\ [][NextTyping]_vars

\* notifications: users connect and disconnect, the backend pushes to them
Notifications == {"n1", "n2"}

NextNotify ==
  \/ \E c \in BusyConns, t \in GoodTokens : Connection(c, t, TRUE)
  \/ \E c \in BusyConns : Disconnect(c)
  \/ \E u \in Users, n \in Notifications : sendNotification(u, n)

SpecNotify == Init /\ [][NextNotify]_vars

\* direct messages: u1, u2 and u3 are connected (connections 1, 2, 3) and
\* hold tickets for e1; u1 and u3 are joined to it
InitDirect ==
  /\ phase = [c \in Conns |-> IF c \in {1, 2, 3} THEN "open" ELSE "fresh"]
  /\ userId = [c \in Conns |-> IF c = 1 THEN "u1" ELSE IF c = 2 THEN "u2"
                                ELSE IF c = 3 THEN "u3" ELSE None]
  /\ connectedUsers = [u \in Users |-> IF u = "u1" THEN 1 ELSE IF u = "u2" THEN 2 ELSE 3]
  /\ rooms = [r \in RoomIds |->
               IF r = EventRoom("e1") THEN {1, 3}
               ELSE IF r = UserRoom("u1") THEN {1}
               ELSE IF r = UserRoom("u2") THEN {2}
               ELSE IF r = UserRoom("u3") THEN {3}
               ELSE {}]
  /\ access = {<<u, "e1">> : u \in Users}
  /\ messages = <<>>
  /\ pendingJoin = {}
  /\ pendingSend = {}
  /\ pendingHistory = {}
  /\ out = EmptyBag
  /\ lastOp = [op |-> "init"]

DirectInputs ==
  {[content |-> "hi", type |-> "private", eventId |-> None, receiverId |-> u] : u \in Users}
  \cup {[content |-> "hi", type |-> "event", eventId |-> "e1", receiverId |-> None]}

NextDirect ==
  \/ \E c \in Conns, d \in DirectInputs : SendMessage(c, d)
  \/ \E p \in pendingSend : saveMessage(p, TRUE)
  \/ \E p \in pendingSend : SendMessageResolved(p)
  \/ \E c \in Conns : JoinEvent(c, "e1", TRUE)
  \/ \E p \in pendingJoin : JoinEventResolved(p)
  \/ \E c \in Conns : LeaveEvent(c, "e1")
  \/ \E c \in Conns : Disconnect(c)

SpecDirect == InitDirect /\ [][NextDirect]_vars

\* system events: the backend injects events into e1 and e2 while clients
\* join, leave, send and read the history of e1
SystemEvents == {"funding_goal_reached", "event_updated"}
SystemPayloads == {"goal"}

NextBroadcast ==
  \/ \E e \in Events, ev \in SystemEvents, d \in SystemPayloads : broadcastToEvent(e, ev, d)
  \/ \E c \in BusyConns : LeaveEvent(c, "e1")
  \/ \E c \in BusyConns : JoinEvent(c, "e1", TRUE)
  \/ \E p \in pendingJoin : JoinEventResolved(p)
  \/ \E d \in SendInputs : SendMessage(1, d)
  \/ \E p \in pendingSend : saveMessage(p, TRUE)
  \/ \E p \in pendingSend : SendMessageResolved(p)
  \/ \E d \in TypingHistoryInputs : GetChatHistory(2, d, TRUE)
  \/ \E p \in pendingHistory : GetChatHistoryResolved(p)

SpecBroadcast == InitJoined /\ [][NextBroadcast]_vars

\* revocation: tickets of joined users are revoked while they stay
\* connected, leave, rejoin, disconnect and exchange event messages
NextRevoke ==
  \/ \E u \in BusyUsers : Revoke(u, "e1")
  \/ \E c \in BusyConns : Disconnect(c)
  \/ \E c \in BusyConns : LeaveEvent(c, "e1")
  \/ \E c \in BusyConns : JoinEvent(c, "e1", TRUE)
  \/ \E p \in pendingJoin : JoinEventResolved(p)
  \/ \E c \in BusyConns : SendMessage(c, [content |-> "hi", type |-> "event",
                                          eventId |-> "e1", receiverId |-> None])
  \/ \E p \in pendingSend : saveMessage(p, TRUE)
  \/ \E p \in pendingSend : SendMessageResolved(p)

SpecRevoke == InitJoined /\ [][NextRevoke]_vars

\* late delivery: u1 (connection 1) sends to e1; the subscriber u2
\* (connection 2) disconnects while a stored message waits for its fan-out,
\* connects again on a new socket and reads the history of e1
NextLate ==
  \/ SendMessage(1, [content |-> "hi", type |-> "event", eventId |-> "e1", receiverId |-> None])
  \/ \E p \in pendingSend : saveMessage(p, TRUE)
  \/ (\E p \in pendingSend : p.stage = "saved") /\ Disconnect(2)
  \/ \E p \in pendingSend : SendMessageResolved(p)
  \/ \E c \in Conns, t \in GoodTokens : Connection(c, t, TRUE)
  \/ \E c \in Conns, d \in TypingHistoryInputs, dbOk \in BOOLEAN : GetChatHistory(c, d, dbOk)
  \/ \E p \in pendingHistory : GetChatHistoryResolved(p)

SpecLate == InitJoined /\ [][NextLate]_vars

\* private history: connection 1 of u1 is open and the table holds private
\* rows of several pairs of users and event rows
PrivateShapes ==
  {[id |-> 0, content |-> "hi", sender_id |-> s, sender_name |-> s,
    type |-> "private", event_id |-> None, receiver_id |-> r]
     : <<s, r>> \in {<<"u1", "u2">>, <<"u2", "u1">>, <<"u2", "u3">>, <<"u3", "u1">>}}
  \cup {[id |-> 0, content |-> "hi", sender_id |-> "u2", sender_name |-> "u2",
         type |-> "event", event_id |-> "e1", receiver_id |-> None]}

PrivateStores ==
  {[i \in DOMAIN f |-> [f[i] EXCEPT !.id = i]]
     : f \in UNION {[1..n -> PrivateShapes] : n \in 0..MaxPrivateStore}}

InitPrivate ==
  /\ phase = [c \in Conns |-> IF c = 1 THEN "open" ELSE "fresh"]
  /\ userId = [c \in Conns |-> IF c = 1 THEN "u1" ELSE None]
  /\ connectedUsers = [u \in Users |-> IF u = "u1" THEN 1 ELSE NoSocket]
  /\ rooms = [r \in RoomIds |-> IF r = UserRoom("u1") THEN {1} ELSE {}]
  /\ access = {<<"u1", "e1">>}
  /\ messages \in PrivateStores
  /\ pendingJoin = {}
  /\ pendingSend = {}
  /\ pendingHistory = {}
  /\ out = EmptyBag
  /\ lastOp = [op |-> "init"]

PrivateInputs ==
  {[type |-> "private", eventId |-> None, receiverId |-> r,
    limit |-> Undefined, offset |-> Undefined] : r \in {"u2", "u3"}}

NextPrivate ==
  \/ \E d \in PrivateInputs, dbOk \in BOOLEAN : GetChatHistory(1, d, dbOk)
  \/ \E p \in pendingHistory : GetChatHistoryResolved(p)

SpecPrivate == InitPrivate /\ [][NextPrivate]_vars

\* failing lookups: every user holds a ticket for e1 and the store may be
\* unavailable when a join looks it up
NextFailClosed ==
  \/ \E c \in BusyConns, t \in GoodTokens : Connection(c, t, TRUE)
  \/ \E c \in BusyConns : Disconnect(c)
  \/ \E c \in BusyConns, e \in Events, dbOk \in BOOLEAN : JoinEvent(c, e, dbOk)
  \/ \E p \in pendingJoin : JoinEventResolved(p)
  \/ \E c \in BusyConns : LeaveEvent(c, "e1")

SpecFailClosed == InitPresence /\ [][NextFailClosed]_vars

\* CONSTRAINT check_message_target of the table chat_messages created by the
\* migration; saveMessage inserts into the table messages, which does not
\* carry it
check_message_target(m) ==
  \/ (m.type = "event" /\ m.event_id # None /\ m.receiver_id = None)
  \/ (m.type = "private" /\ m.receiver_id # None /\ m.event_id = None)

\* ------------------------------------------------------------------ claims
\* a step in which connection c completes its handshake
ConnectionStep(c) == phase[c] = "fresh" /\ phase'[c] # "fresh"

\* the credential is correctly signed, unexpired and names an existing user
ValidCredential(t) == t # NoToken /\ t.signed /\ ~t.expired /\ t.sub \in Users

\* C1: a connection attempt with a correctly signed, unexpired token naming
\* an existing user (and a user lookup that succeeds) makes the connection
\* usable and puts the user in the registry; every other attempt is rejected
\* and leaves the registry and all subscriber sets unchanged.
C1_ConnectionContract ==
  [][\A c \in Conns : ConnectionStep(c) =>
       IF ValidCredential(lastOp'.token) /\ lastOp'.dbOk
       THEN /\ phase'[c] = "open"
            /\ userId'[c] = lastOp'.token.sub
            /\ connectedUsers'[lastOp'.token.sub] # NoSocket
       ELSE /\ phase'[c] = "rejected"
            /\ connectedUsers' = connectedUsers
            /\ rooms' = rooms]_vars

\* C9: the registry has an entry for a user exactly when one of the user's
\* connections is open, and the entry is an open connection of that user.
C9_RegistryIffOpen ==
  \A u \in Users :
    /\ connectedUsers[u] # NoSocket <=> (\E c \in connected : userId[c] = u)
    /\ connectedUsers[u] # NoSocket =>
         (connectedUsers[u] \in connected /\ userId[connectedUsers[u]] = u)

\* a step in which connection c is torn down
DisconnectStep(c) == phase[c] = "open" /\ phase'[c] = "closed"

\* C8: after a connection of user U disconnects, get_online_users of every
\* event channel it was subscribed to lists U only if another connection of
\* U is still subscribed, and the registry entry of U is removed if and only
\* if no other connection of U remains open.
C8_DisconnectPresence ==
  [][\A c \in Conns : DisconnectStep(c) =>
       /\ \A e \in Events :
            (c \in rooms[EventRoom(e)] /\ userId[c] \in DOMAIN (OnlineUsers(e)'))
              => \E d \in Conns \ {c} :
                   /\ phase'[d] = "open"
                   /\ userId'[d] = userId[c]
                   /\ d \in rooms'[EventRoom(e)]
       /\ connectedUsers'[userId[c]] = NoSocket
            <=> ~ \E d \in Conns \ {c} : phase'[d] = "open" /\ userId'[d] = userId[c]]_vars

\* C10: a disconnected connection is in no subscriber set, and a join_event
\* that resolves after its connection has disconnected neither adds the
\* connection to the event channel nor emits user_joined_event.
C10_StaleJoinDiscarded ==
  /\ \A r \in RoomIds : \A c \in rooms[r] : phase[c] = "open"
  /\ (lastOp.op = "join_event_resolved" /\ phase[lastOp.conn] = "closed")
       => \A x \in BagToSet(out) : x.ev # "user_joined_event"

\* C2: join_event(eventId) on a connection of user U succeeds (the
\* connection is added to event:eventId and receives joined_event with
\* success true) if and only if verifyEventAccess(U, eventId) is true when
\* the handler is called; a denied join changes no subscriber set, emits no
\* user_joined_event and sends only 'Access denied to this event' to the
\* requester; no connection enters an event channel in any other way.
C2_JoinIffAuthorized ==
  [][/\ \A p \in pendingJoin' \ pendingJoin :
          p.hasAccess <=> (<<userId[p.conn], p.eventId>> \in access /\ lastOp'.dbOk)
     /\ \A p \in pendingJoin \ pendingJoin' :
          IF p.hasAccess
          THEN phase[p.conn] = "open" =>
                 /\ p.conn \in rooms'[EventRoom(p.eventId)]
                 /\ Copies(p.conn, "joined_event",
                           [eventId |-> p.eventId, success |-> TRUE])' = 1
          ELSE /\ rooms' = rooms
               /\ out' = SetToBag({Emission(c, "error", [message |-> "Access denied to this event"])
                                     : c \in {p.conn} \cap connected})
     /\ \A e \in Events : \A c \in rooms'[EventRoom(e)] \ rooms[EventRoom(e)] :
          \E p \in pendingJoin \ pendingJoin' :
            p.conn = c /\ p.eventId = e /\ p.hasAccess]_vars

\* a join that succeeded on the authorization held at call time, the ticket
\* having been revoked before the lookup resolved
C2_Witness ==
  /\ lastOp.op = "join_event_resolved"
  /\ lastOp.hasAccess
  /\ lastOp.conn \in rooms[EventRoom(lastOp.eventId)]
  /\ <<userId[lastOp.conn], lastOp.eventId>> \notin access
  /\ Copies(lastOp.conn, "joined_event", [eventId |-> lastOp.eventId, success |-> TRUE]) = 1

\* the last step was the fan-out of a persisted message of the given type
FannedOut(type) ==
  /\ lastOp.op = "send_message_resolved"
  /\ lastOp.stage = "saved"
  /\ lastOp.data.type = type

\* C3: when a persisted event message is fanned out, every connection in
\* the subscriber set S of the event channel, the sender's included if it
\* is joined, receives exactly one new_message with that row, no connection
\* outside S receives it, and nothing else is emitted.
C3_EventFanOut ==
  (FannedOut("event") /\ lastOp.data.eventId # None) =>
     /\ \A c \in Conns :
          Copies(c, "new_message", lastOp.row)
            = IF c \in rooms[EventRoom(lastOp.data.eventId)] THEN 1 ELSE 0
     /\ \A x \in BagToSet(out) : x.ev = "new_message" /\ x.data = lastOp.row

\* an event message fanned out to two subscribers, one of them the sender
C3_Witness ==
  /\ FannedOut("event")
  /\ lastOp.conn \in rooms[EventRoom(lastOp.data.eventId)]
  /\ Cardinality(rooms[EventRoom(lastOp.data.eventId)]) >= 2
  /\ Copies(lastOp.conn, "new_message", lastOp.row) = 1

\* C4: a persisted private message from A to B is delivered as new_message
\* to every open connection of B and to every open connection of A.
C4_DirectToAllConnections ==
  FannedOut("private") =>
    \A c \in connected :
      userId[c] \in {lastOp.row.sender_id, lastOp.row.receiver_id}
        => Copies(c, "new_message", lastOp.row) >= 1

\* C5: when persisting fails nothing is stored, the registry and the
\* subscriber sets stay as they are, no new_message is emitted, and the
\* only emission is error 'Failed to send message' to the sending
\* connection.
C5_FailedPersistAborts ==
  [][/\ (lastOp'.op = "saveMessage" /\ pendingSend' # pendingSend /\ ~lastOp'.dbOk) =>
          /\ messages' = messages
          /\ rooms' = rooms
          /\ connectedUsers' = connectedUsers
          /\ out' = EmptyBag
          /\ \A q \in pendingSend' \ pendingSend : q.stage = "failed"
     /\ \A p \in pendingSend \ pendingSend' :
          p.stage = "failed" =>
            /\ messages' = messages
            /\ rooms' = rooms
            /\ connectedUsers' = connectedUsers
            /\ out' = SetToBag({Emission(c, "error", [message |-> "Failed to send message"])
                                  : c \in {p.conn} \cap connected})]_vars

\* a failed send to an event channel that has a subscriber: the sender is
\* told, the subscriber hears nothing
C5_Witness ==
  /\ lastOp.op = "send_message_resolved"
  /\ lastOp.stage = "failed"
  /\ lastOp.data.type = "event"
  /\ rooms[EventRoom(lastOp.data.eventId)] # {}
  /\ messages = <<>>
  /\ Copies(lastOp.conn, "error", [message |-> "Failed to send message"]) = 1

\* C7: a requester who is not authorized for an event never receives a
\* chat_history payload that contains messages of that event.
C7_HistoryAuthorized ==
  (/\ lastOp.op = "get_chat_history_resolved"
   /\ lastOp.data.type = "event"
   /\ <<userId[lastOp.conn], lastOp.data.eventId>> \notin access)
    => \A x \in BagToSet(out) : x.ev = "chat_history" => x.data.messages = <<>>

\* the rows of the channel a history request names, oldest first
ChannelRows(c, data) ==
  IF data.type = "event"
  THEN SelectSeq(messages, LAMBDA m : IsEventRow(m, data.eventId))
  ELSE SelectSeq(messages, LAMBDA m : IsPrivateRow(m, userId[c], data.receiverId))

\* the k newest of the rows, oldest of them first
Newest(rows, k) == SubSeq(rows, Len(rows) - Min(k, Len(rows)) + 1, Len(rows))

\* the last step answered a history request for the first page
FirstPageAnswered ==
  /\ lastOp.op = "get_chat_history_resolved"
  /\ lastOp.ok
  /\ lastOp.data.offset \in {Undefined, 0}

\* C6 as stated: history with limit L (50 when absent) and offset 0 returns
\* exactly the min(L, n) newest messages of the channel, oldest first.
C6_HistoryNewestPage ==
  FirstPageAnswered =>
    \A x \in BagToSet(out) :
      x.data.messages
        = Newest(ChannelRows(lastOp.conn, lastOp.data),
                 IF lastOp.data.limit = Undefined THEN DefaultLimit ELSE lastOp.data.limit)

\* C6 amended: the same for every L >= 1; a limit of 0 is taken as absent
\* and selects the default of 50.
C6_HistoryNewestPageAmended ==
  FirstPageAnswered =>
    \A x \in BagToSet(out) :
      /\ x.to = lastOp.conn /\ x.ev = "chat_history"
      /\ x.data.messages
           = Newest(ChannelRows(lastOp.conn, lastOp.data),
                    IF lastOp.data.limit \in {Undefined, 0} THEN DefaultLimit
                    ELSE lastOp.data.limit)

\* limit 2 on a channel of at least three rows among rows of other channels:
\* the page is the two newest rows, in ascending order
C6_Witness ==
  /\ FirstPageAnswered
  /\ lastOp.data.limit = 2
  /\ Len(ChannelRows(lastOp.conn, lastOp.data)) >= 3
  /\ Len(messages) > Len(ChannelRows(lastOp.conn, lastOp.data))
  /\ \E x \in BagToSet(out) :
       /\ Len(x.data.messages) = 2
       /\ x.data.messages[1].id < x.data.messages[2].id
       /\ x.data.messages[2] = ChannelRows(lastOp.conn, lastOp.data)[Len(ChannelRows(lastOp.conn, lastOp.data))]

\* C11: of two send_message requests submitted in that order on the same
\* connection, the first is persisted before the second and its new_message
\* fan-out happens before the second's, whatever the order in which the two
\* persistence calls complete.
C11_SubmissionOrder ==
  /\ \A i, j \in 1..Len(messages) :
       (i < j /\ messages[i].sender_id = messages[j].sender_id)
         => messages[i].content < messages[j].content
  /\ lastOp.op = "send_message_resolved" =>
       \A q \in pendingSend :
         q.conn = lastOp.conn => q.data.content > lastOp.data.content

\* the payload of a send_message that is to be rejected: empty or too long
\* content, no target valid for the type, or both targets set
Malformed(data) ==
  \/ data.content \in {EmptyText, TooLongText}
  \/ (data.eventId # None /\ data.receiverId # None)
  \/ (data.type = "event" /\ data.eventId = None)
  \/ (data.type = "private" /\ data.receiverId = None)

\* C12: a send_message whose content is empty or too long or whose target
\* is malformed is rejected: nothing is persisted for it, no new_message is
\* emitted, and the only emission is an error to the sender.
C12_MalformedRejected ==
  /\ \A p \in pendingSend : Malformed(p.data) => p.stage # "saved"
  /\ (lastOp.op = "send_message_resolved" /\ Malformed(lastOp.data)) =>
       /\ lastOp.stage # "saved"
       /\ \A x \in BagToSet(out) : x.ev = "error" /\ x.to = lastOp.conn

\* C13: every persisted message record has exactly one of event_id and
\* receiver_id set: event_id for type 'event', receiver_id for type
\* 'private', whatever payload the client submitted.
C13_ExactlyOneTarget ==
  \A i \in 1..Len(messages) : check_message_target(messages[i])

\* C14: typing_start and typing_stop leave the message store as it is; a
\* row enters the store only by the INSERT of a send_message, carrying that
\* request's content, sender and target, and every row of a chat_history
\* answer is a row of the store.
C14_TypingNotPersisted ==
  [][/\ lastOp'.op \in {"typing_start", "typing_stop"} => messages' = messages
     /\ messages' # messages =>
          \E p \in pendingSend :
            /\ p.stage = "saving"
            /\ messages' = Append(messages, MessageRow(p.conn, p.data))
     /\ \A x \in BagToSet(out') :
          x.ev = "chat_history" =>
            \A i \in 1..Len(x.data.messages) :
              \E j \in 1..Len(messages') : x.data.messages[i] = messages'[j]]_vars

\* a typing signal reaches a subscriber while the store holds a row and a
\* history request that reads that row is in flight
C14_Witness ==
  /\ lastOp.op = "typing_start"
  /\ out # EmptyBag
  /\ Len(messages) = 1
  /\ \E p \in pendingHistory : p.result.rows = messages

\* C15: the list get_online_users(eventId) answers with holds every user
\* that has a connection subscribed to the event channel exactly once,
\* however many of the user's connections are joined, and no other user.
C15_OnlineUsersDistinct ==
  lastOp.op = "get_online_users" =>
    \A x \in BagToSet(out) :
      x.ev = "online_users" =>
        /\ DOMAIN x.data.users = {userId[s] : s \in rooms[EventRoom(lastOp.eventId)]}
        /\ \A u \in DOMAIN x.data.users : x.data.users[u] = 1

\* C16: the teardown of a connection removes it from every channel, gives
\* the remaining subscribers of every event channel it was in a
\* user_left_event, removes it from the registry and broadcasts
\* user_disconnected exactly once; a connection that has been torn down is
\* not torn down again.
C16_Teardown ==
  [][\A c \in Conns :
       /\ DisconnectStep(c) =>
            /\ \A r \in RoomIds : c \notin rooms'[r]
            /\ \A e \in Events :
                 c \in rooms[EventRoom(e)] =>
                   \A d \in rooms'[EventRoom(e)] :
                     Copies(d, "user_left_event",
                            [userId |-> userId[c], eventId |-> e])' = 1
            /\ connectedUsers'[userId[c]] # c
            /\ \A d \in Conns \ {c} :
                 Copies(d, "user_disconnected", [userId |-> userId[c]])'
                   = IF phase'[d] = "open" THEN 1 ELSE 0
       /\ phase[c] = "closed" => phase'[c] = "closed"]_vars

\* C17: sendNotification delivers the payload once to every open connection
\* of the target user and to no other connection; it emits nothing exactly
\* when the user has no open connection.
C17_NotifyAllConnections ==
  lastOp.op = "sendNotification" =>
    \A c \in Conns :
      Copies(c, "notification", lastOp.notification)
        = IF c \in connected /\ userId[c] = lastOp.userId THEN 1 ELSE 0

\* C18: the new_message of a persisted private message from A to B is
\* delivered to no connection of a user other than A and B, whatever event
\* channels that user is subscribed to.
C18_DirectIsolation ==
  FannedOut("private") =>
    \A x \in BagToSet(out) :
      /\ x.ev = "new_message"
      /\ userId[x.to] \in {lastOp.row.sender_id, lastOp.row.receiver_id}

\* a private message is delivered to the receiver while a third user is
\* connected and shares an event channel with the sender
C18_Witness ==
  /\ FannedOut("private")
  /\ lastOp.row.sender_id # lastOp.row.receiver_id
  /\ \E d \in connected :
       userId[d] = lastOp.row.receiver_id /\ Copies(d, "new_message", lastOp.row) = 1
  /\ \E c \in connected :
       /\ userId[c] \notin {lastOp.row.sender_id, lastOp.row.receiver_id}
       /\ {c, lastOp.conn} \subseteq rooms[EventRoom("e1")]
       /\ Copies(c, "new_message", lastOp.row) = 0

\* C19: leave_event(eventId) takes the connection out of the event channel
\* whether or not its user is authorized for the event and changes no other
\* subscriber set; every subscriber that remains, and not the leaver,
\* receives user_left_event; and a new_message or typing signal of an event
\* channel reaches only connections that are subscribed to it, so none
\* reaches a connection that has left.
C19_LeaveUnconditional ==
  [][/\ lastOp'.op = "leave_event" =>
          /\ rooms' = [rooms EXCEPT ![EventRoom(lastOp'.eventId)] = @ \ {lastOp'.conn}]
          /\ \A d \in Conns :
               CopiesIn(Emission(d, "user_left_event",
                                 [userId |-> userId[lastOp'.conn],
                                  eventId |-> lastOp'.eventId]), out')
                 = IF d \in rooms'[EventRoom(lastOp'.eventId)] THEN 1 ELSE 0
     /\ \A x \in BagToSet(out') :
          /\ (x.ev = "new_message" /\ x.data.type = "event")
               => x.to \in rooms'[EventRoom(x.data.event_id)]
          /\ (x.ev \in {"user_typing", "user_stopped_typing"} /\ x.data.eventId # None)
               => x.to \in rooms'[EventRoom(x.data.eventId)]]_vars

\* a connection whose ticket has been revoked leaves e1 and the remaining
\* subscriber is told
C19_Witness ==
  /\ lastOp.op = "leave_event"
  /\ <<userId[lastOp.conn], lastOp.eventId>> \notin access
  /\ lastOp.conn \notin rooms[EventRoom(lastOp.eventId)]
  /\ \E d \in rooms[EventRoom(lastOp.eventId)] :
       Copies(d, "user_left_event",
              [userId |-> userId[lastOp.conn], eventId |-> lastOp.eventId]) = 1

\* the set of connections a typing signal is meant for: the subscribers of
\* the event channel if eventId is given, else the receiver's direct channel
TypingTarget(data) ==
  IF data.eventId # None THEN rooms[EventRoom(data.eventId)]
  ELSE IF data.receiverId # None THEN rooms[UserRoom(data.receiverId)]
  ELSE {}

\* C20: typing_start (typing_stop) emits user_typing (user_stopped_typing)
\* once to every current subscriber of the target channel other than the
\* originating connection, and to nobody else.
C20_TypingToOthers ==
  lastOp.op \in {"typing_start", "typing_stop"} =>
    \A d \in Conns :
      /\ Copies(d, IF lastOp.op = "typing_start" THEN "user_typing" ELSE "user_stopped_typing",
                TypingData(lastOp.conn, lastOp.data))
           = IF d \in TypingTarget(lastOp.data) \ {lastOp.conn} THEN 1 ELSE 0
      /\ \A x \in BagToSet(out) :
           /\ x.ev = IF lastOp.op = "typing_start" THEN "user_typing" ELSE "user_stopped_typing"
           /\ x.data = TypingData(lastOp.conn, lastOp.data)

\* a subscriber of e1 stops typing: the other subscriber is told, the
\* originating connection is not
C20_Witness ==
  /\ lastOp.op = "typing_stop"
  /\ lastOp.data.eventId = "e1"
  /\ lastOp.conn \in rooms[EventRoom("e1")]
  /\ \E d \in rooms[EventRoom("e1")] \ {lastOp.conn} :
       Copies(d, "user_stopped_typing", TypingData(lastOp.conn, lastOp.data)) = 1
  /\ Copies(lastOp.conn, "user_stopped_typing", TypingData(lastOp.conn, lastOp.data)) = 0

\* C21: broadcastToEvent(eventId, event, data) delivers the payload once to
\* every current subscriber of event:eventId and to nobody else, and leaves
\* the message store, the registry and all subscriber sets unchanged; no
\* row of the store and no row of a chat_history answer carries an injected
\* payload.
C21_BroadcastBypassesStore ==
  [][/\ lastOp'.op = "broadcastToEvent" =>
          /\ messages' = messages
          /\ connectedUsers' = connectedUsers
          /\ rooms' = rooms
          /\ \A c \in Conns :
               CopiesIn(Emission(c, lastOp'.ev, lastOp'.data), out')
                 = IF c \in rooms[EventRoom(lastOp'.eventId)] THEN 1 ELSE 0
          /\ \A x \in BagToSet(out') : x.ev = lastOp'.ev /\ x.data = lastOp'.data
     /\ \A i \in 1..Len(messages') : messages'[i].content \notin SystemPayloads
     /\ \A x \in BagToSet(out') :
          x.ev = "chat_history" =>
            \A i \in 1..Len(x.data.messages) :
              x.data.messages[i].content \notin SystemPayloads]_vars

\* an event is injected into e1 while one connection is subscribed to e1,
\* another is not, and the store holds a message of e1
C21_Witness ==
  /\ lastOp.op = "broadcastToEvent"
  /\ lastOp.eventId = "e1"
  /\ \E c \in rooms[EventRoom("e1")] : Copies(c, lastOp.ev, lastOp.data) = 1
  /\ \E c \in connected : c \notin rooms[EventRoom("e1")] /\ Copies(c, lastOp.ev, lastOp.data) = 0
  /\ \E i \in 1..Len(messages) : IsEventRow(messages[i], "e1")

\* C22: every new_message delivered carries a row that was in the message
\* store before the delivery, and a send_message whose INSERT succeeds adds
\* exactly one row: the store grows by one row at a time, only by the
\* INSERT of a send that is still waiting for it, and that send does not
\* wait for an INSERT again.
C22_PersistThenFanOut ==
  [][/\ \A x \in BagToSet(out') :
          x.ev = "new_message" => \E i \in 1..Len(messages) : messages[i] = x.data
     /\ messages' # messages =>
          \E p \in pendingSend :
            /\ p.stage = "saving"
            /\ messages' = Append(messages, MessageRow(p.conn, p.data))
            /\ pendingSend' = (pendingSend \ {p}) \cup
                 {[p EXCEPT !.stage = "saved", !.row = MessageRow(p.conn, p.data)]}
     /\ \A p \in pendingSend \ pendingSend' :
          p.stage = "saved" =>
            Cardinality({i \in 1..Len(messages') : messages'[i] = p.row}) = 1]_vars

\* a private message is delivered after its row, and only that row, has
\* been stored
C22_Witness ==
  /\ FannedOut("private")
  /\ out # EmptyBag
  /\ messages = <<lastOp.row>>
  /\ \A x \in BagToSet(out) : x.data = messages[1]

\* C23: a connection that has joined an event channel leaves its subscriber
\* set only by its own leave_event for that event or by its disconnect, and
\* the fan-out of an event message reaches every subscriber, also one whose
\* user is no longer authorized for the event.
C23_JoinTimeAuthorization ==
  [][/\ \A e \in Events : \A c \in rooms[EventRoom(e)] \ rooms'[EventRoom(e)] :
          \/ lastOp'.op = "leave_event" /\ lastOp'.conn = c /\ lastOp'.eventId = e
          \/ lastOp'.op = "disconnect" /\ lastOp'.conn = c
     /\ (lastOp'.op = "send_message_resolved" /\ lastOp'.stage = "saved") =>
          \A c \in rooms'[EventRoom(lastOp'.data.eventId)] :
            CopiesIn(Emission(c, "new_message", lastOp'.row), out') = 1]_vars

\* an event message reaches a subscriber whose ticket has been revoked
C23_Witness ==
  /\ FannedOut("event")
  /\ \E c \in rooms[EventRoom("e1")] \ {lastOp.conn} :
       /\ <<userId[c], "e1">> \notin access
       /\ Copies(c, "new_message", lastOp.row) = 1

\* C24: every open connection of user U is in the subscriber set of user:U
\* and of no other user's direct channel, whatever join_event and
\* leave_event calls have been made.
C24_OwnDirectChannel ==
  \A c \in connected : \A u \in Users :
    c \in rooms[UserRoom(u)] <=> u = userId[c]

\* connections of two users are open and one of them, subscribed to an
\* event channel, has just left another one
C24_Witness ==
  /\ lastOp.op = "leave_event"
  /\ \E e \in Events \ {lastOp.eventId} : lastOp.conn \in rooms[EventRoom(e)]
  /\ \E d \in connected : userId[d] # userId[lastOp.conn]
  /\ lastOp.conn \in rooms[UserRoom(userId[lastOp.conn])]

\* C25: the fan-out of a message reaches no closed connection; the store
\* only grows, its rows are never changed or removed; and a history
\* request that succeeds (default limit, offset 0) returns every row of the
\* channel that is in the store when the request is made, also to a
\* connection opened after the message was stored.
C25_MissedMessageInHistory ==
  [][/\ lastOp'.op = "send_message_resolved" =>
          \A x \in BagToSet(out') : phase'[x.to] = "open"
     /\ Len(messages') >= Len(messages)
     /\ SubSeq(messages', 1, Len(messages)) = messages
     /\ \A p \in pendingHistory' \ pendingHistory :
          p.result.ok => p.result.rows = ChannelRows(p.conn, p.data)
     /\ \A p \in pendingHistory \ pendingHistory' :
          p.result.ok =>
            out' = SetToBag({Emission(c, "chat_history",
                                      [messages |-> p.result.rows, type |-> p.data.type,
                                       eventId |-> p.data.eventId,
                                       receiverId |-> p.data.receiverId])
                               : c \in {p.conn} \cap connected})]_vars

\* connection 2 of u2 was closed while a stored message waited for its
\* fan-out; u2 has connected again and the history of e1 it asked for holds
\* the message
C25_Witness ==
  /\ lastOp.op = "get_chat_history_resolved"
  /\ lastOp.ok
  /\ phase[2] = "closed"
  /\ lastOp.conn # 2
  /\ userId[lastOp.conn] = userId[2]
  /\ pendingSend = {}
  /\ \E x \in BagToSet(out) :
       /\ x.to = lastOp.conn
       /\ x.data.messages = messages
       /\ Len(messages) >= 1

\* C26: a send_message to an event channel is stored, and delivered to the
\* channel's subscribers, only if the sending connection is subscribed to
\* the event channel or its user is authorized for the event.
C26_SendRequiresMembership ==
  [][/\ \A p \in pendingSend :
          (/\ lastOp'.op = "saveMessage" /\ lastOp'.dbOk /\ lastOp'.conn = p.conn
           /\ p.stage = "saving"
           /\ messages' = Append(messages, MessageRow(p.conn, p.data))
           /\ p.data.type = "event" /\ p.data.eventId # None)
            => \/ p.conn \in rooms[EventRoom(p.data.eventId)]
               \/ <<userId[p.conn], p.data.eventId>> \in access
     /\ (lastOp'.op = "send_message_resolved" /\ lastOp'.data.type = "event"
         /\ lastOp'.data.eventId # None /\ out' # EmptyBag)
            => \/ lastOp'.conn \in rooms[EventRoom(lastOp'.data.eventId)]
               \/ <<userId[lastOp'.conn], lastOp'.data.eventId>> \in access]_vars

\* C27: when a persisted message is fanned out, event or private, every
\* connection receives at most one new_message for it; a private message
\* whose receiver is the sender's own user reaches the sending connection
\* once.
C27_AtMostOnce ==
  (lastOp.op = "send_message_resolved" /\ lastOp.stage = "saved") =>
    \A c \in Conns : Copies(c, "new_message", lastOp.row) <= 1

\* C28: the chat_history answer to a request of type 'private' with peer P
\* on a connection of user U holds only private rows whose sender and
\* receiver are U and P, in either direction: no event row and no private
\* row of another pair of users.
C28_PrivateHistoryPair ==
  (lastOp.op = "get_chat_history_resolved" /\ lastOp.data.type = "private") =>
    \A x \in BagToSet(out) :
      x.ev = "chat_history" =>
        \A i \in 1..Len(x.data.messages) :
          /\ x.data.messages[i].type = "private"
          /\ <<x.data.messages[i].sender_id, x.data.messages[i].receiver_id>>
               \in {<<userId[lastOp.conn], lastOp.data.receiverId>>,
                    <<lastOp.data.receiverId, userId[lastOp.conn]>>}

\* u1 reads its conversation with u2 from a store that also holds a private
\* row between u2 and u3 and an event row
C28_Witness ==
  /\ lastOp.op = "get_chat_history_resolved"
  /\ lastOp.ok
  /\ lastOp.data.receiverId = "u2"
  /\ \E i \in 1..Len(messages) :
       messages[i].sender_id = "u2" /\ messages[i].receiver_id = "u3"
  /\ \E i \in 1..Len(messages) : messages[i].type = "event"
  /\ \E x \in BagToSet(out) : Len(x.data.messages) = 1

\* C29: a join_event whose authorization lookup fails is treated as denied:
\* the connection is not added to any subscriber set, no user_joined_event
\* is emitted, the requester receives an error and nothing else is emitted,
\* and the connection stays open.
C29_LookupFailsClosed ==
  [][/\ \A p \in pendingJoin' \ pendingJoin : ~lastOp'.dbOk => ~p.hasAccess
     /\ \A p \in pendingJoin \ pendingJoin' :
          ~p.hasAccess =>
            /\ rooms' = rooms
            /\ phase' = phase
            /\ connectedUsers' = connectedUsers
            /\ \A x \in BagToSet(out') : x.ev = "error" /\ x.to = p.conn
            /\ phase[p.conn] = "open" =>
                 \E x \in BagToSet(out') : x.ev = "error" /\ x.to = p.conn]_vars

\* a ticket holder's join of e1 is refused because the lookup failed, while
\* another connection is subscribed to e1
C29_Witness ==
  /\ lastOp.op = "join_event_resolved"
  /\ ~lastOp.hasAccess
  /\ <<userId[lastOp.conn], lastOp.eventId>> \in access
  /\ phase[lastOp.conn] = "open"
  /\ lastOp.conn \notin rooms[EventRoom(lastOp.eventId)]
  /\ rooms[EventRoom(lastOp.eventId)] # {}
  /\ out = SetToBag({Emission(lastOp.conn, "error", [message |-> "Access denied to this event"])})

\* C30: a send_message on a connection that is still open ends in one of
\* two ways once the store has answered: the row is stored and delivered as
\* new_message, with no error, or nothing is stored or delivered and the
\* sender receives an error.
C30_SendOutcome ==
  (lastOp.op = "send_message_resolved" /\ phase[lastOp.conn] = "open") =>
    IF lastOp.stage = "saved"
    THEN /\ \E x \in BagToSet(out) : x.ev = "new_message" /\ x.data = lastOp.row
         /\ \A x \in BagToSet(out) : x.ev = "new_message"
    ELSE /\ out = SetToBag({Emission(lastOp.conn, "error",
                                     [message |-> "Failed to send message"])})
         /\ lastOp.row = NoRow
====
